---- MODULE Spec2Model ----
(***************************************************************************)
(* FidelScribeBot (src/bot.py): the transcription client                   *)
(* (exponential_backoff_retry, transcribe_audio), handle_audio around it,  *)
(* and the language selection (handle_language_callback, get_string).      *)
(*                                                                         *)
(* Spec        two transcribe_audio calls in flight together, interleaving *)
(*             at their awaits, each of which may be cancelled.            *)
(* FairSpec    one call whose posts and sleeps all finish.                 *)
(* DetSpec     two calls against an endpoint that treats attempt i of      *)
(*             both the same way.                                          *)
(* HandlerSpec one handle_audio invocation from the incoming message on,   *)
(*             with language callbacks and commands arriving at any time.  *)
(*                                                                         *)
(* Durations are counted in ticks of 1/JitterSteps second, so that         *)
(* random.uniform(0, 1) is a choice of 0 .. JitterSteps ticks.  Telegram   *)
(* sends and edits (reply_text, edit_text) are taken to succeed.           *)
(***************************************************************************)
EXTENDS Integers, Sequences, FiniteSets, TLC

\* ---------------------------------------------------------------- bounds
JitterSteps == 1

\* ------------------------------------------------------ program constants
MAX_RETRIES == 3
BASE_DELAY == 1

\* The coroutines in flight (one handle_audio invocation each).
Calls == {"a", "b"}

Absent == "<absent>"

\* ----------------------------------------------------- endpoint behaviour
\* Exceptions httpx raises for a failed attempt; both are RequestError
\* subclasses, ReadTimeout is also a TimeoutException.
TransportErrors == {"ConnectError", "ReadTimeout"}

Statuses == {200, 400, 500, 404}

\* A response body: no body at all, bytes that are not JSON, JSON that is
\* not an object, or a JSON object with optional fields.
NoBody == [json |-> "none", success |-> Absent, error |-> Absent, transcription |-> Absent]
Garbage == [json |-> "garbage", success |-> Absent, error |-> Absent, transcription |-> Absent]
NonObject == [json |-> "nonobject", success |-> Absent, error |-> Absent, transcription |-> Absent]

Obj(s, e, t) == [json |-> "object", success |-> s, error |-> e, transcription |-> t]

Bodies ==
    { NoBody, Garbage, NonObject,
      Obj("true", Absent, "selam"),
      Obj("true", Absent, ""),
      Obj("false", "bad audio", Absent),
      Obj(Absent, "bad audio", Absent),
      Obj(Absent, "Server error", Absent),
      Obj(Absent, Absent, Absent) }

Failed(e) == [type |-> "exc", exc |-> e, status |-> 0, body |-> NoBody]
Response(s, b) == [type |-> "response", exc |-> "", status |-> s, body |-> b]

\* What one client.post can end in.
AttemptOutcomes ==
    { Failed(e) : e \in TransportErrors } \cup
    { Response(s, b) : s \in Statuses, b \in Bodies }

None == [type |-> "none", exc |-> "", status |-> 0, body |-> NoBody]

\* ------------------------------------------------------------ pure parts
RECURSIVE Pow2(_)
Pow2(n) == IF n = 0 THEN 1 ELSE 2 * Pow2(n - 1)

\* Faulty variants of Delay: the exponent applied as a factor, and the backoff
\* shrinking instead of growing.
DelayLinear(i, jitter) == BASE_DELAY * (2 * i) * JitterSteps + jitter
DelayShrinking(i, jitter) == (BASE_DELAY * JitterSteps) \div Pow2(i) + jitter

\* delay = base_delay * (2 ** attempt) + random.uniform(0, 1), in ticks.
Delay(i, jitter) == BASE_DELAY * Pow2(i) * JitterSteps + jitter

\* Faulty variant of Caught: a 5xx response is treated as a retryable failure.
CaughtOrServerError(o) ==
    \/ o.type = "exc" /\ o.exc \in TransportErrors
    \/ o.type = "response" /\ o.status >= 500

\* Faulty variant of Caught: a bare except, which also catches CancelledError.
CaughtEverything(o) == o.type = "exc"

\* except (httpx.RequestError, httpx.TimeoutException)
Caught(o) == o.type = "exc" /\ o.exc \in TransportErrors

\* Faulty variant of IsLastAttempt: gives up one attempt early.
IsLastAttemptEarly(i) == i >= MAX_RETRIES - 2

\* if attempt == max_retries - 1: raise e
IsLastAttempt(i) == i = MAX_RETRIES - 1

\* Faulty variant of RetryReturn: only the first attempt's response is passed on.
RetryReturnFirstOnly(i, o) == IF i = 0 THEN o ELSE None

\* return await func(*args, **kwargs), in iteration i
RetryReturn(i, o) == o

\* Faulty variant of IsTimeoutException: the clause sits below except
\* Exception and never matches.
IsTimeoutExceptionShadowed(e) == FALSE

\* except httpx.TimeoutException
IsTimeoutException(e) == e = "ReadTimeout"

Returned(v) == [type |-> "returned", exc |-> "", value |-> v]
Raised(e) == [type |-> "raised", exc |-> e, value |-> NoBody]
Pending == [type |-> "pending", exc |-> "", value |-> NoBody]

ErrorDict(msg) == Obj("false", msg, Absent)

\* error_data.get("error", default)
GetError(b, default) == IF b.error = Absent THEN default ELSE b.error

\* response.json() followed by error_data.get(...)
ErrorFromBody(b, default) ==
    CASE b.json \in {"none", "garbage"} -> Raised("JSONDecodeError")
      [] b.json = "nonobject" -> Raised("AttributeError")
      [] OTHER -> Returned(ErrorDict(GetError(b, default)))

\* The body of transcribe_audio after exponential_backoff_retry returned r.
transcribe_audio(r) ==
    IF r = None
    THEN Returned(ErrorDict("Failed to connect to API after retries"))
    ELSE CASE r.status = 200 ->
                  IF r.body.json \in {"none", "garbage"}
                  THEN Raised("JSONDecodeError")
                  ELSE Returned(r.body)
           [] r.status = 400 -> ErrorFromBody(r.body, "Bad request")
           [] r.status = 500 -> ErrorFromBody(r.body, "Server error")
           [] OTHER ->
                  Returned(ErrorDict("Unexpected status code: " \o ToString(r.status)))

Message(key, text) == [key |-> key, text |-> text]

Processing == Message("processing", "")

\* Faulty variant of Truthy: an empty transcription counts as text.
TruthyNotNone(t) == t # Absent

\* if transcription:
Truthy(t) == t # Absent /\ t # ""

\* handle_audio from the return of transcribe_audio to edit_text.
handle_result(out) ==
    IF out.type = "raised"
    THEN IF IsTimeoutException(out.exc)
         THEN Message("error_timeout", "")
         ELSE Message("error_generic", "")
    ELSE IF out.value.json # "object"
    THEN Message("error_generic", "")
    ELSE IF out.value.success = "true"
    THEN IF Truthy(out.value.transcription)
         THEN Message("transcription_success", out.value.transcription)
         ELSE Message("no_text_detected", "")
    ELSE Message("error_failed", GetError(out.value, "Unknown error occurred"))

\* Faulty variant of ClientExit: the client is closed after the block only,
\* so an exception leaves it open.
ClientExitOnReturn(out) == IF out.type = "returned" THEN "closed" ELSE "open"

\* async with httpx.AsyncClient(...) as client: __aexit__ runs however the
\* block is left.
ClientExit(out) == "closed"

\* What the event loop raises at the pending await of a cancelled task.
Cancellation == Failed("CancelledError")

\* except Exception: asyncio.CancelledError derives from BaseException.
IsException(e) == e # "CancelledError"

\* ------------------------------------------------------- handler, pure parts
MAX_FILE_SIZE_MB == 10
MAX_AUDIO_DURATION_SECONDS == 60
DEFAULT_LANGUAGE == "am"

\* user_data has no "language" entry.
Unset == "<unset>"

\* LANGUAGES[lang]["code"]
LANGUAGES == [am |-> "am-ET", en |-> "en-US"]

\* The keys of STRINGS["am"] and of STRINGS["en"].
StringKeys ==
    { "welcome", "help", "choose_language", "language_set", "processing",
      "transcription_success", "no_text_detected", "error_failed",
      "error_timeout", "error_generic", "error_no_audio",
      "error_file_too_large", "warning_long_audio" }

STRINGS == [am |-> StringKeys, en |-> StringKeys]

\* The suffixes a callback matching ^lang_ can carry: the two buttons, and
\* one that is no configured language.
CallbackSuffixes == {"am", "en", "xx"}

\* context.user_data.get("language", DEFAULT_LANGUAGE)
get_user_language(l) == IF l = Unset THEN DEFAULT_LANGUAGE ELSE l

\* STRINGS.get(lang, STRINGS[DEFAULT_LANGUAGE]).get(key, STRINGS[DEFAULT_LANGUAGE][key]):
\* the table whose text is returned, or KeyError when the default argument
\* cannot be evaluated.
get_string(key, l) ==
    LET lang == get_user_language(l)
        table == IF lang \in DOMAIN STRINGS THEN lang ELSE DEFAULT_LANGUAGE
    IN  IF key \notin STRINGS[DEFAULT_LANGUAGE]
        THEN "KeyError"
        ELSE IF key \in STRINGS[table] THEN table ELSE DEFAULT_LANGUAGE

\* Faulty variant of LanguageCode: LANGUAGES[user_lang]["code"], no default.
LanguageCodeUnguarded(l) ==
    IF get_user_language(l) \in DOMAIN LANGUAGES
    THEN LANGUAGES[get_user_language(l)]
    ELSE "KeyError"

\* LANGUAGES.get(user_lang, LANGUAGES[DEFAULT_LANGUAGE])["code"]
LanguageCode(l) ==
    IF get_user_language(l) \in DOMAIN LANGUAGES
    THEN LANGUAGES[get_user_language(l)]
    ELSE LANGUAGES[DEFAULT_LANGUAGE]

\* An incoming message: voice, audio or neither, with the file size in
\* bytes (0 when Telegram reports none) and the duration in seconds.
Update(k, sz, dur) == [kind |-> k, size |-> sz, duration |-> dur]

NoUpdate == Update("none", 0, 0)

Updates ==
    { NoUpdate } \cup
    { Update(k, sz, dur) :
        k \in {"voice", "audio"},
        sz \in {0, 10 * 1024 * 1024, 10 * 1024 * 1024 + 1},
        dur \in {0, 60, 61} }

\* Faulty variant of TooLarge: a file of exactly the maximum is refused.
TooLargeInclusive(sz) == sz >= MAX_FILE_SIZE_MB * (1024 * 1024)

\* file_size_mb = file_size / (1024 * 1024); file_size_mb > MAX_FILE_SIZE_MB
TooLarge(sz) == sz > MAX_FILE_SIZE_MB * (1024 * 1024)

\* if duration and duration > MAX_AUDIO_DURATION_SECONDS
TooLong(dur) == dur # 0 /\ dur > MAX_AUDIO_DURATION_SECONDS

\* What get_file and download_as_bytearray can end in: the bytes, an
\* httpx.TimeoutException, or telegram's own error.
FetchErrors == {"ReadTimeout", "TelegramError"}

NoMessage == Message("none", "")

\* ------------------------------------------------------------------ state
VARIABLES
    pc,         \* where each coroutine is suspended
    attempt,    \* the loop variable of exponential_backoff_retry
    posts,      \* number of client.post calls issued
    last,       \* how the most recent finished client.post ended
    delays,     \* the delays slept so far, in ticks
    outcome,    \* what transcribe_audio returned or raised
    message,    \* what processing_msg shows
    client,     \* the httpx.AsyncClient of the call
    cancelled,  \* the task of the call has been cancelled
    script,     \* what a deterministic endpoint did on attempts 0, 1, ...
    update,     \* the message handle_audio was called with
    replies,    \* the keys of the texts sent with message.reply_text
    fetch,      \* how far get_file / download_as_bytearray got
    language_code,  \* the code passed to transcribe_audio
    edits,      \* number of processing_msg.edit_text calls
    rendered,   \* the STRINGS table the handler's latest text came from
    lang,       \* context.user_data["language"]
    reply       \* the texts sent by the latest command or callback handler

\* The variables the transcription client never touches.
handlerVars == <<update, replies, fetch, language_code, lang, reply>>

vars == <<pc, attempt, posts, last, delays, outcome, message, client,
          cancelled, script, update, replies, fetch, language_code, edits,
          rendered, lang, reply>>

Init ==
    /\ pc = [c \in Calls |-> "ready"]
    /\ attempt = [c \in Calls |-> 0]
    /\ posts = [c \in Calls |-> 0]
    /\ last = [c \in Calls |-> None]
    /\ delays = [c \in Calls |-> <<>>]
    /\ outcome = [c \in Calls |-> Pending]
    /\ message = [c \in Calls |-> Processing]
    /\ client = [c \in Calls |-> "unopened"]
    /\ cancelled = [c \in Calls |-> FALSE]
    /\ script = <<>>
    /\ update = [c \in Calls |-> Update("voice", 0, 0)]
    /\ replies = [c \in Calls |-> <<"processing">>]
    /\ fetch = [c \in Calls |-> "ok"]
    /\ language_code = [c \in Calls |-> LanguageCode(Unset)]
    /\ edits = [c \in Calls |-> 0]
    /\ rendered = [c \in Calls |-> get_string("processing", Unset)]
    /\ lang = Unset
    /\ reply = <<>>

\* transcribe_audio returns or raises: the client is released, and
\* handle_audio edits the message unless the exception passes its handlers.
Finish(c, out) ==
    /\ outcome' = [outcome EXCEPT ![c] = out]
    /\ client' = [client EXCEPT ![c] = ClientExit(out)]
    /\ IF out.type = "raised" /\ ~IsException(out.exc)
       THEN /\ pc' = [pc EXCEPT ![c] = "cancelled"]
            /\ UNCHANGED <<message, edits, rendered>>
       ELSE /\ pc' = [pc EXCEPT ![c] = "done"]
            /\ message' = [message EXCEPT ![c] = handle_result(out)]
            /\ edits' = [edits EXCEPT ![c] = @ + 1]
            /\ rendered' = [rendered EXCEPT ![c] = get_string(handle_result(out).key, lang)]

\* transcribe_audio is entered: the client is opened, range(max_retries)
\* yields attempt 0 and the first client.post is awaited.
Enter(c) ==
    /\ IF 0 < MAX_RETRIES
       THEN /\ pc' = [pc EXCEPT ![c] = "inflight"]
            /\ posts' = [posts EXCEPT ![c] = @ + 1]
            /\ client' = [client EXCEPT ![c] = "open"]
            /\ UNCHANGED <<outcome, message, edits, rendered>>
       ELSE /\ Finish(c, transcribe_audio(None))
            /\ UNCHANGED posts
    /\ UNCHANGED <<attempt, last, delays, cancelled, script>>

\* handle_audio calls transcribe_audio with the bytes it downloaded.
Transcribe(c) ==
    /\ pc[c] = "ready"
    /\ Enter(c)
    /\ UNCHANGED handlerVars

\* Faulty variant of Except: the call also gives up once its first sleep was
\* longer than the base delay.
ExceptTimeBudget(c, o) ==
    IF \/ IsLastAttempt(attempt[c])
       \/ Len(delays[c]) > 0 /\ delays[c][1] > BASE_DELAY * JitterSteps
    THEN /\ Finish(c, Raised(o.exc))
         /\ UNCHANGED delays
    ELSE /\ pc' = [pc EXCEPT ![c] = "sleeping"]
         /\ \E jitter \in 0 .. JitterSteps :
                delays' = [delays EXCEPT ![c] = Append(@, Delay(attempt[c], jitter))]
         /\ UNCHANGED <<outcome, message, client, edits, rendered>>

\* The except clause of exponential_backoff_retry, entered with o.
Except(c, o) ==
    IF IsLastAttempt(attempt[c])
    THEN /\ Finish(c, Raised(o.exc))
         /\ UNCHANGED delays
    ELSE /\ pc' = [pc EXCEPT ![c] = "sleeping"]
         /\ \E jitter \in 0 .. JitterSteps :
                delays' = [delays EXCEPT ![c] = Append(@, Delay(attempt[c], jitter))]
         /\ UNCHANGED <<outcome, message, client, edits, rendered>>

\* The awaited client.post ends in o.
AttemptStep(c, o) ==
    /\ pc[c] = "inflight"
    /\ last' = [last EXCEPT ![c] = o]
    /\ IF Caught(o)
       THEN Except(c, o)
       ELSE /\ Finish(c, IF o.type = "exc"
                          THEN Raised(o.exc)
                          ELSE transcribe_audio(RetryReturn(attempt[c], o)))
            /\ UNCHANGED delays
    /\ UNCHANGED <<attempt, posts, cancelled, handlerVars>>

\* The endpoint answers the attempt as it pleases.
AttemptEnds(c, o) ==
    /\ AttemptStep(c, o)
    /\ UNCHANGED script

\* A deterministic endpoint: attempt i of every call ends the way attempt i
\* of the first call to get there did.
ScriptedAttemptEnds(c) ==
    \E o \in AttemptOutcomes :
        /\ attempt[c] < Len(script) => o = script[attempt[c] + 1]
        /\ AttemptStep(c, o)
        /\ script' = IF attempt[c] < Len(script) THEN script ELSE Append(script, o)

\* Faulty variant of Wake: the loop counter is one counter for all calls.
WakeSharedCounter(c) ==
    /\ pc[c] = "sleeping"
    /\ attempt' = [d \in Calls |-> attempt[d] + 1]
    /\ IF attempt[c] + 1 < MAX_RETRIES
       THEN /\ pc' = [pc EXCEPT ![c] = "inflight"]
            /\ posts' = [posts EXCEPT ![c] = @ + 1]
            /\ UNCHANGED <<outcome, message, client, edits, rendered>>
       ELSE /\ Finish(c, transcribe_audio(None))
            /\ UNCHANGED posts
    /\ UNCHANGED <<last, delays, cancelled, script, handlerVars>>

\* Faulty variant of Wake: the loop never advances.
WakeSameAttempt(c) ==
    /\ pc[c] = "sleeping"
    /\ pc' = [pc EXCEPT ![c] = "inflight"]
    /\ posts' = [posts EXCEPT ![c] = @ + 1]
    /\ UNCHANGED <<attempt, outcome, message, client, edits, rendered, last, delays,
                   cancelled, script, handlerVars>>

\* asyncio.sleep(delay) returns and the loop takes its next iteration.
Wake(c) ==
    /\ pc[c] = "sleeping"
    /\ attempt' = [attempt EXCEPT ![c] = @ + 1]
    /\ IF attempt[c] + 1 < MAX_RETRIES
       THEN /\ pc' = [pc EXCEPT ![c] = "inflight"]
            /\ posts' = [posts EXCEPT ![c] = @ + 1]
            /\ UNCHANGED <<outcome, message, client, edits, rendered>>
       ELSE /\ Finish(c, transcribe_audio(None))
            /\ UNCHANGED posts
    /\ UNCHANGED <<last, delays, cancelled, script, handlerVars>>

\* The task running the call is cancelled while it awaits client.post or
\* asyncio.sleep: CancelledError is raised at that await.
Cancel(c) ==
    /\ pc[c] \in {"inflight", "sleeping"}
    /\ ~cancelled[c]
    /\ cancelled' = [cancelled EXCEPT ![c] = TRUE]
    /\ IF pc[c] = "inflight" /\ Caught(Cancellation)
       THEN Except(c, Cancellation)
       ELSE /\ Finish(c, Raised(Cancellation.exc))
            /\ UNCHANGED delays
    /\ UNCHANGED <<attempt, posts, last, script, handlerVars>>

\* The variables the handler steps before transcribe_audio leave alone.
clientVars == <<attempt, posts, last, delays, outcome, client, script>>

\* handle_audio up to its first await that can fail: the checks on the
\* message, the replies, and the request for the file.
HandleAudio(c, u) ==
    /\ pc[c] = "new"
    /\ update' = [update EXCEPT ![c] = u]
    /\ IF u.kind = "none"
       THEN /\ replies' = [replies EXCEPT ![c] = <<"error_no_audio">>]
            /\ rendered' = [rendered EXCEPT ![c] = get_string("error_no_audio", lang)]
            /\ pc' = [pc EXCEPT ![c] = "rejected"]
            /\ UNCHANGED <<message, fetch>>
       ELSE IF TooLarge(u.size)
       THEN /\ replies' = [replies EXCEPT ![c] = <<"error_file_too_large">>]
            /\ rendered' = [rendered EXCEPT ![c] = get_string("error_file_too_large", lang)]
            /\ pc' = [pc EXCEPT ![c] = "rejected"]
            /\ UNCHANGED <<message, fetch>>
       ELSE /\ replies' = [replies EXCEPT ![c] =
                              (IF TooLong(u.duration)
                               THEN <<"warning_long_audio">>
                               ELSE <<>>) \o <<"processing">>]
            /\ rendered' = [rendered EXCEPT ![c] = get_string("processing", lang)]
            /\ message' = [message EXCEPT ![c] = Processing]
            /\ pc' = [pc EXCEPT ![c] = "get_file"]
            /\ fetch' = [fetch EXCEPT ![c] = "pending"]
    /\ UNCHANGED <<clientVars, cancelled, language_code, edits, lang, reply>>

\* An exception of get_file or download_as_bytearray reaches the except
\* clauses of handle_audio.
FetchFails(c, e) ==
    /\ fetch' = [fetch EXCEPT ![c] = e]
    /\ pc' = [pc EXCEPT ![c] = "done"]
    /\ message' = [message EXCEPT ![c] = handle_result(Raised(e))]
    /\ edits' = [edits EXCEPT ![c] = @ + 1]
    /\ rendered' = [rendered EXCEPT ![c] = get_string(handle_result(Raised(e)).key, lang)]
    /\ UNCHANGED <<clientVars, language_code>>

\* await context.bot.get_file(...) ends in r.
GetFileEnds(c, r) ==
    /\ pc[c] = "get_file"
    /\ IF r = "ok"
       THEN /\ pc' = [pc EXCEPT ![c] = "download"]
            /\ UNCHANGED <<clientVars, fetch, language_code, message, edits, rendered>>
       ELSE FetchFails(c, r)
    /\ UNCHANGED <<cancelled, update, replies, lang, reply>>

\* await file.download_as_bytearray() ends in r; with the bytes, the
\* language code is looked up and transcribe_audio is entered.
DownloadEnds(c, r) ==
    /\ pc[c] = "download"
    /\ IF r = "ok"
       THEN /\ fetch' = [fetch EXCEPT ![c] = "ok"]
            /\ language_code' = [language_code EXCEPT ![c] = LanguageCode(lang)]
            /\ Enter(c)
       ELSE /\ FetchFails(c, r)
            /\ UNCHANGED cancelled
    /\ UNCHANGED <<update, replies, lang, reply>>

\* The task is cancelled while it awaits get_file or the download.
CancelFetch(c) ==
    /\ pc[c] \in {"get_file", "download"}
    /\ ~cancelled[c]
    /\ cancelled' = [cancelled EXCEPT ![c] = TRUE]
    /\ pc' = [pc EXCEPT ![c] = "cancelled"]
    /\ UNCHANGED <<clientVars, handlerVars, message, edits, rendered>>

Sent(key, l) == [key |-> key, table |-> get_string(key, l)]

\* handle_language_callback with query.data = "lang_" + suffix.
LanguageCallback(suffix) ==
    /\ lang' = suffix
    /\ reply' = <<Sent("language_set", suffix), Sent("welcome", suffix)>>
    /\ UNCHANGED <<pc, clientVars, cancelled, message, edits, rendered,
                   update, replies, fetch, language_code>>

\* start_command and language_command (choose_language), help_command (help).
Command(key) ==
    /\ reply' = <<Sent(key, lang)>>
    /\ UNCHANGED <<pc, clientVars, cancelled, message, edits, rendered,
                   update, replies, fetch, language_code, lang>>

Next ==
    \/ \E c \in Calls : Transcribe(c)
    \/ \E c \in Calls, o \in AttemptOutcomes : AttemptEnds(c, o)
    \/ \E c \in Calls : Wake(c)
    \/ \E c \in Calls : Cancel(c)

Spec == Init /\ [][Next]_vars

\* One call on its own: no update has arrived for the other coroutine.
SoloInit ==
    /\ pc = [c \in Calls |-> IF c = "a" THEN "ready" ELSE "idle"]
    /\ attempt = [c \in Calls |-> 0]
    /\ posts = [c \in Calls |-> 0]
    /\ last = [c \in Calls |-> None]
    /\ delays = [c \in Calls |-> <<>>]
    /\ outcome = [c \in Calls |-> Pending]
    /\ message = [c \in Calls |-> IF c = "a" THEN Processing ELSE NoMessage]
    /\ client = [c \in Calls |-> "unopened"]
    /\ cancelled = [c \in Calls |-> FALSE]
    /\ script = <<>>
    /\ update = [c \in Calls |-> IF c = "a" THEN Update("voice", 0, 0) ELSE NoUpdate]
    /\ replies = [c \in Calls |-> IF c = "a" THEN <<"processing">> ELSE <<>>]
    /\ fetch = [c \in Calls |-> IF c = "a" THEN "ok" ELSE "none"]
    /\ language_code = [c \in Calls |-> IF c = "a" THEN LanguageCode(Unset) ELSE "unset"]
    /\ edits = [c \in Calls |-> 0]
    /\ rendered = [c \in Calls |-> IF c = "a" THEN get_string("processing", Unset) ELSE "-"]
    /\ lang = Unset
    /\ reply = <<>>

\* Every awaited client.post and every asyncio.sleep finishes.
FairSpec ==
    /\ SoloInit
    /\ [][Next]_vars
    /\ \A c \in Calls :
          /\ WF_vars(Transcribe(c))
          /\ WF_vars(\E o \in AttemptOutcomes : AttemptEnds(c, o))
          /\ WF_vars(Wake(c))

\* An update for handle_audio has arrived; the user has chosen no language.
HandlerInit ==
    /\ pc = [c \in Calls |-> IF c = "a" THEN "new" ELSE "idle"]
    /\ attempt = [c \in Calls |-> 0]
    /\ posts = [c \in Calls |-> 0]
    /\ last = [c \in Calls |-> None]
    /\ delays = [c \in Calls |-> <<>>]
    /\ outcome = [c \in Calls |-> Pending]
    /\ message = [c \in Calls |-> NoMessage]
    /\ client = [c \in Calls |-> "unopened"]
    /\ cancelled = [c \in Calls |-> FALSE]
    /\ script = <<>>
    /\ update = [c \in Calls |-> NoUpdate]
    /\ replies = [c \in Calls |-> <<>>]
    /\ fetch = [c \in Calls |-> "none"]
    /\ language_code = [c \in Calls |-> "unset"]
    /\ edits = [c \in Calls |-> 0]
    /\ rendered = [c \in Calls |-> "-"]
    /\ lang = Unset
    /\ reply = <<>>

\* The handlers registered in main, with the client underneath.
HandlerNext ==
    \/ \E c \in Calls, u \in Updates : HandleAudio(c, u)
    \/ \E c \in Calls, r \in {"ok"} \cup FetchErrors : GetFileEnds(c, r)
    \/ \E c \in Calls, r \in {"ok"} \cup FetchErrors : DownloadEnds(c, r)
    \/ \E c \in Calls, o \in AttemptOutcomes : AttemptEnds(c, o)
    \/ \E c \in Calls : Wake(c)
    \/ \E c \in Calls : Cancel(c)
    \/ \E c \in Calls : CancelFetch(c)
    \/ \E suffix \in CallbackSuffixes : LanguageCallback(suffix)
    \/ \E key \in {"choose_language", "help"} : Command(key)

HandlerSpec == HandlerInit /\ [][HandlerNext]_vars

\* Two calls against a deterministic endpoint, neither of them cancelled.
DetNext ==
    \/ \E c \in Calls : Transcribe(c)
    \/ \E c \in Calls : ScriptedAttemptEnds(c)
    \/ \E c \in Calls : Wake(c)

DetSpec == Init /\ [][DetNext]_vars

\* ------------------------------------------------------------ properties
Done(c) == pc[c] = "done"

\* Every attempt of the call ended in a transport failure and the call gave up.
GaveUp(c) == Done(c) /\ last[c].type = "exc"

\* The call ended on an HTTP response.
Answered(c) == Done(c) /\ last[c].type = "response"

\* The lower end of the delay after failed attempt i, in ticks.
MinDelay(i) == BASE_DELAY * Pow2(i) * JitterSteps

\* C1: a call whose attempts all fail at transport level issues exactly
\* MAX_RETRIES requests before giving up, and no call ever issues more.
ExactlyMaxRetriesAttempts ==
    \A c \in Calls :
        /\ posts[c] <= MAX_RETRIES
        /\ GaveUp(c) => posts[c] = MAX_RETRIES

ExactlyMaxRetriesAttemptsWitness ==
    \E c \in Calls :
        /\ GaveUp(c)
        /\ posts[c] = MAX_RETRIES
        /\ last[c].exc = "ReadTimeout"

\* C2: when all attempts fail at transport level, transcribe_audio returns
\* the failure dict with reason "Failed to connect to API after retries".
ConnectivityFailureReturned ==
    \A c \in Calls :
        GaveUp(c) =>
            outcome[c] = Returned(ErrorDict("Failed to connect to API after retries"))

\* C3: transcribe_audio always ends by returning a value; no exception
\* escapes it, whatever the endpoint did.
NoExceptionEscapes ==
    \A c \in Calls : outcome[c].type # "raised"

\* C4: a step that ends with an HTTP response received issues no request
\* and starts no backoff sleep, and the call is over: once a response has
\* arrived there is no further attempt and no sleep.
NoRetryAfterResponse ==
    [][\A c \in Calls :
          last'[c].type = "response" =>
              /\ pc'[c] = "done"
              /\ posts'[c] = posts[c]
              /\ delays'[c] = delays[c]]_vars

NoRetryAfterResponseWitness ==
    \E c \in Calls :
        /\ Answered(c)
        /\ last[c].status \in {400, 500}
        /\ posts[c] = 1
        /\ delays[c] = <<>>

\* The body parses as JSON.
Parseable(b) == b.json \in {"object", "nonobject"}

\* The error kind the status code of a response stands for.
KindOfStatus(st) ==
    CASE st = 200 -> "Body"
      [] st = 400 -> "ClientError"
      [] st = 500 -> "ServerError"
      [] OTHER -> "UnexpectedStatus"

\* C5: for a response with a parseable JSON body the result is fixed by the
\* status: 200 returns the body, 400 and 500 return a failure whose reason
\* is the body's error field or the default text, any other status returns
\* a failure naming the status code; and failures of different kinds are
\* distinguishable in the returned result.
ResultFixedByStatus ==
    /\ \A c \in Calls :
          (Answered(c) /\ Parseable(last[c].body)) =>
              outcome[c] =
                  CASE last[c].status = 200 -> Returned(last[c].body)
                    [] last[c].status = 400 ->
                          Returned(ErrorDict(IF last[c].body.error = Absent
                                             THEN "Bad request"
                                             ELSE last[c].body.error))
                    [] last[c].status = 500 ->
                          Returned(ErrorDict(IF last[c].body.error = Absent
                                             THEN "Server error"
                                             ELSE last[c].body.error))
                    [] OTHER ->
                          Returned(ErrorDict("Unexpected status code: "
                                             \o ToString(last[c].status)))
    /\ \A c1, c2 \in Calls :
          ( /\ Answered(c1) /\ Parseable(last[c1].body)
            /\ Answered(c2) /\ Parseable(last[c2].body)
            /\ KindOfStatus(last[c1].status) # "Body"
            /\ KindOfStatus(last[c2].status) # "Body"
            /\ KindOfStatus(last[c1].status) # KindOfStatus(last[c2].status) )
          => outcome[c1] # outcome[c2]

\* C6: retries do not show in the result: two calls that end on the same
\* response have the same outcome and show the same message, however many
\* attempts failed before it; a 200 response carrying a non-empty
\* transcription is returned as it is, with that text.
RetriesInvisible ==
    /\ \A c1, c2 \in Calls :
          (Answered(c1) /\ Answered(c2) /\ last[c1] = last[c2]) =>
              /\ outcome[c1] = outcome[c2]
              /\ message[c1] = message[c2]
    /\ \A c \in Calls :
          ( /\ Answered(c)
            /\ last[c].status = 200
            /\ last[c].body.json = "object"
            /\ last[c].body.success = "true"
            /\ last[c].body.transcription \notin {Absent, ""} )
          => /\ outcome[c].type = "returned"
             /\ outcome[c].value.success = "true"
             /\ outcome[c].value.transcription = last[c].body.transcription

RetriesInvisibleWitness ==
    \E c1, c2 \in Calls :
        /\ Answered(c1) /\ posts[c1] = 1
        /\ Answered(c2) /\ posts[c2] = MAX_RETRIES
        /\ last[c1] = last[c2]
        /\ last[c1].status = 200
        /\ outcome[c2].type = "returned"
        /\ outcome[c2].value.transcription = "selam"

\* C7: every request but the first is preceded by exactly one sleep, the
\* sleep after failed attempt i lasts base_delay * 2^i plus a jitter of at
\* most one second, and no sleep follows the final attempt: a call that
\* gives up has slept MAX_RETRIES - 1 times.
OneSleepPerRetry ==
    \A c \in Calls :
        /\ pc[c] = "ready" => Len(delays[c]) = 0 /\ posts[c] = 0
        /\ pc[c] = "inflight" => Len(delays[c]) = posts[c] - 1
        /\ pc[c] = "sleeping" => Len(delays[c]) = posts[c]
        /\ Done(c) => Len(delays[c]) = posts[c] - 1
        /\ GaveUp(c) => Len(delays[c]) = MAX_RETRIES - 1
        /\ \A k \in 1 .. Len(delays[c]) :
              /\ delays[c][k] >= MinDelay(k - 1)
              /\ delays[c][k] <= MinDelay(k - 1) + JitterSteps

OneSleepPerRetryWitness ==
    \E c \in Calls :
        /\ GaveUp(c)
        /\ Len(delays[c]) = MAX_RETRIES - 1
        /\ delays[c][1] = MinDelay(0) + 1
        /\ delays[c][2] = MinDelay(1) + JitterSteps

\* C8: under the default policy the successive delays of one call never
\* decrease, whatever the jitter, and the delay after failed attempt i is
\* at least base_delay * 2^i.
DelaysNonDecreasing ==
    \A c \in Calls :
        /\ \A k \in 1 .. Len(delays[c]) - 1 : delays[c][k] <= delays[c][k + 1]
        /\ \A k \in 1 .. Len(delays[c]) : delays[c][k] >= MinDelay(k - 1)

\* The tight case: the largest jitter first, then the smallest.
DelaysNonDecreasingWitness ==
    \E c \in Calls :
        /\ Len(delays[c]) = 2
        /\ delays[c][1] = MinDelay(0) + JitterSteps
        /\ delays[c][2] = MinDelay(1)

\* C9: a 500 response without a body gives the failure with the default
\* reason "Server error", after one attempt and no retry when it answers
\* the first attempt.
ServerErrorDefaultReason ==
    \A c \in Calls :
        (Answered(c) /\ last[c] = Response(500, NoBody)) =>
            /\ outcome[c] = Returned(ErrorDict("Server error"))
            /\ (delays[c] = <<>> => posts[c] = 1)

\* The result is a success with no text: success is true and the
\* transcription is empty or missing.
EmptyResult(out) ==
    /\ out.type = "returned"
    /\ out.value.json = "object"
    /\ out.value.success = "true"
    /\ out.value.transcription \in {Absent, ""}

\* C10: a 200 response with success true and an empty transcription ends
\* in the 'no text detected' message, and that message is shown for no
\* other kind of result: never for a success with text, a failure or an
\* exception.
EmptyResultIsSoftOutcome ==
    \A c \in Calls :
        /\ ( /\ Answered(c)
             /\ last[c].status = 200
             /\ last[c].body.json = "object"
             /\ last[c].body.success = "true"
             /\ last[c].body.transcription = "" )
           => message[c] = Message("no_text_detected", "")
        /\ message[c].key = "no_text_detected" => EmptyResult(outcome[c])
        /\ message[c].key \in {"transcription_success", "error_failed",
                               "error_timeout", "error_generic"}
           => ~EmptyResult(outcome[c])

EmptyResultIsSoftOutcomeWitness ==
    \E c \in Calls :
        /\ Answered(c)
        /\ last[c] = Response(200, Obj("true", Absent, ""))
        /\ posts[c] = 2
        /\ message[c].key = "no_text_detected"

\* The coroutine of the call has ended.
EndedPcs == {"done", "cancelled", "rejected"}

Ended(c) == pc[c] \in EndedPcs

\* C11: every call reaches a terminal state when its posts and sleeps
\* finish, after at most MAX_RETRIES attempts; it has an outcome exactly
\* when it has ended, and once it has ended its outcome never changes and
\* no further attempt or sleep follows.
ExactlyOneTerminalOutcome ==
    /\ \A c \in Calls : (pc[c] = "ready") ~> Ended(c)
    /\ [](\A c \in Calls :
             /\ posts[c] <= MAX_RETRIES
             /\ Ended(c) <=> outcome[c] # Pending)
    /\ [][\A c \in Calls :
             Ended(c) =>
                 /\ pc'[c] = pc[c]
                 /\ outcome'[c] = outcome[c]
                 /\ posts'[c] = posts[c]
                 /\ delays'[c] = delays[c]]_vars

ExactlyOneTerminalOutcomeWitness ==
    \E c \in Calls :
        /\ Ended(c)
        /\ posts[c] = MAX_RETRIES
        /\ outcome[c].type = "returned"

\* C12: a request is only issued on an open client, a call that has ended
\* holds no open client, however it ended, and a closed client is never
\* used or reopened.
ClientReleasedOnEveryExit ==
    [][\A c \in Calls :
          /\ pc'[c] \in EndedPcs => client'[c] # "open"
          /\ posts'[c] # posts[c] => client'[c] = "open"
          /\ pc'[c] \in {"inflight", "sleeping"} => client'[c] = "open"
          /\ client[c] = "closed" => client'[c] = "closed"]_vars

ClientReleasedOnEveryExitWitness ==
    \E c, d \in Calls :
        /\ pc[c] = "cancelled" /\ posts[c] = 2 /\ client[c] = "closed"
        /\ GaveUp(d) /\ client[d] = "closed"

\* C13: a cancelled call stops where it is: it ends with CancelledError,
\* the cancellation is not recorded or retried as a transport failure, no
\* request and no sleep is started after it, and its client is closed.
CancellationStopsCall ==
    [][\A c \in Calls :
          cancelled'[c] =>
              /\ pc'[c] = "cancelled"
              /\ outcome'[c] = Raised("CancelledError")
              /\ client'[c] = "closed"
              /\ posts'[c] = posts[c]
              /\ delays'[c] = delays[c]
              /\ attempt'[c] = attempt[c]
              /\ last'[c] = last[c]]_vars

CancellationStopsCallWitness ==
    \E c, d \in Calls :
        /\ cancelled[c] /\ posts[c] = 1 /\ Len(delays[c]) = 1
        /\ cancelled[d] /\ posts[d] = 2 /\ Len(delays[d]) = 1

\* C14: two calls against an endpoint that treats attempt i of both the
\* same way end with the same outcome and show the same message, whatever
\* jitter each of them drew.
ResultDeterministic ==
    \A c1, c2 \in Calls :
        (Done(c1) /\ Done(c2)) =>
            /\ outcome[c1] = outcome[c2]
            /\ message[c1] = message[c2]
            /\ posts[c1] = posts[c2]

ResultDeterministicWitness ==
    \E c1, c2 \in Calls :
        /\ Done(c1) /\ Done(c2)
        /\ posts[c1] = MAX_RETRIES
        /\ delays[c1] # delays[c2]
        /\ outcome[c1].type = "returned"
        /\ outcome[c1] = outcome[c2]

\* C15: a step of one call leaves the loop counter, the request count, the
\* delays, the last attempt outcome, the result, the message and the client
\* of every other call unchanged, and each call's counters follow from its
\* own delays alone.
CallsIndependent ==
    /\ [](\A c \in Calls :
             /\ attempt[c] <= Len(delays[c])
             /\ Len(delays[c]) <= attempt[c] + 1
             /\ posts[c] = IF pc[c] = "ready" THEN 0 ELSE attempt[c] + 1)
    /\ [][\A c, d \in Calls :
             (c # d /\ pc'[c] # pc[c]) =>
                 /\ pc'[d] = pc[d]
                 /\ attempt'[d] = attempt[d]
                 /\ posts'[d] = posts[d]
                 /\ delays'[d] = delays[d]
                 /\ last'[d] = last[d]
                 /\ outcome'[d] = outcome[d]
                 /\ message'[d] = message[d]
                 /\ client'[d] = client[d]]_vars

CallsIndependentWitness ==
    \E c, d \in Calls :
        /\ GaveUp(c) /\ attempt[c] = MAX_RETRIES - 1
        /\ Answered(d) /\ attempt[d] = 0 /\ posts[d] = 1

\* The messages that stand for the end of the processing.
TerminalKeys ==
    { "transcription_success", "no_text_detected", "error_failed",
      "error_timeout", "error_generic" }

SentProcessing(c) == \E i \in 1 .. Len(replies[c]) : replies[c][i] = "processing"

\* The terminal message the handler owes the user, read off what happened
\* to the download and to transcribe_audio.
OwedMessage(c) ==
    IF fetch[c] \in FetchErrors
    THEN IF fetch[c] = "ReadTimeout"
         THEN Message("error_timeout", "")
         ELSE Message("error_generic", "")
    ELSE IF outcome[c].type = "raised"
    THEN IF outcome[c].exc = "ReadTimeout"
         THEN Message("error_timeout", "")
         ELSE Message("error_generic", "")
    ELSE IF outcome[c].value.json # "object"
    THEN Message("error_generic", "")
    ELSE IF outcome[c].value.success # "true"
    THEN Message("error_failed",
                 IF outcome[c].value.error = Absent
                 THEN "Unknown error occurred"
                 ELSE outcome[c].value.error)
    ELSE IF outcome[c].value.transcription \in {Absent, ""}
    THEN Message("no_text_detected", "")
    ELSE Message("transcription_success", outcome[c].value.transcription)

RejectedNeverProcessed ==
    \A c \in Calls :
        pc[c] \notin {"idle", "new"} =>
            IF update[c].kind = "none" \/ update[c].size > 10485760
            THEN /\ pc[c] = "rejected"
                 /\ replies[c] = << IF update[c].kind = "none"
                                    THEN "error_no_audio"
                                    ELSE "error_file_too_large" >>
                 /\ message[c] = NoMessage
                 /\ fetch[c] = "none"
                 /\ posts[c] = 0
                 /\ client[c] = "unopened"
                 /\ outcome[c] = Pending
                 /\ edits[c] = 0
            ELSE /\ pc[c] # "rejected"
                 /\ fetch[c] # "none"
                 /\ replies[c] = IF update[c].duration > 60
                                 THEN <<"warning_long_audio", "processing">>
                                 ELSE <<"processing">>

RejectedNeverProcessedWitness ==
    \E c \in Calls :
        /\ pc[c] = "rejected"
        /\ update[c].kind = "audio"
        /\ update[c].size = 10485761
        /\ replies[c] = <<"error_file_too_large">>

\* The table and the code a language value stands for.
ConfiguredOrDefault(l) == IF l \in {"am", "en"} THEN l ELSE "am"

CodeFor(l) == IF l = "en" THEN "en-US" ELSE "am-ET"

\* C18: the code handed to transcribe_audio is am-ET or en-US: the code of
\* the language selected last when that is am or en, am-ET when none or an
\* unknown one was selected; and every text lookup, for every key, yields
\* the text of the selected language or of the default one, never an error.
LanguageAlwaysConfigured ==
    /\ [](\A c \in Calls :
             /\ language_code[c] \in {"unset", "am-ET", "en-US"}
             /\ posts[c] > 0 => language_code[c] \in {"am-ET", "en-US"}
             /\ rendered[c] \in {"-", "am", "en"})
    /\ [](\A i \in 1 .. Len(reply) : reply[i].table = ConfiguredOrDefault(lang))
    /\ [](\A k \in StringKeys, l \in CallbackSuffixes \cup {Unset} :
             get_string(k, l) = ConfiguredOrDefault(l))
    /\ [][\A c \in Calls :
             /\ language_code'[c] # language_code[c] =>
                    language_code'[c] = CodeFor(lang)
             /\ posts'[c] # posts[c] /\ posts[c] = 0 =>
                    language_code'[c] = CodeFor(lang)
             /\ rendered'[c] # rendered[c] =>
                    rendered'[c] = ConfiguredOrDefault(lang)]_vars

LanguageAlwaysConfiguredWitness ==
    \E c \in Calls :
        /\ lang = "xx"
        /\ pc[c] = "inflight"
        /\ language_code[c] = "am-ET"
        /\ Len(reply) = 2
        /\ reply[2] = [key |-> "welcome", table |-> "am"]

====
